---- MODULE Spec2Model ----
(***************************************************************************)
(* ExplorerSharp: the directory presentation engine of the tree provider   *)
(* (readDirectory / tryFlatten / flattenFile / flattenChildDir), the part  *)
(* of the LINQ-style sequence library it uses (where, orderBy, thenBy,     *)
(* toArray, contains) and the hide / unhide / unhideAll commands.          *)
(*                                                                         *)
(* Strings are sequences of one-character strings, so that startsWith,     *)
(* joinPath, asRelativePath, basename and the template literals that build *)
(* labels are computed, not assumed.                                       *)
(***************************************************************************)
EXTENDS Integers, Sequences, FiniteSets, TLC

VARIABLES
    fs,                             \* the workspace on disk: set of [uri, type]
    hiddenFolders,                  \* setting explorerSharp.hiddenFolders
    flattenSingleFileDirectories,   \* setting explorerSharp.flattenSingleFileDirectories
    flattenSingleChildDirectories,  \* setting explorerSharp.flattenSingleChildDirectories
    unreadable,                     \* the directories whose read fails
    listing,                        \* the most recent getChildren call and its answer
    pending,                        \* command continuations suspended at an await
    refreshFired,                   \* _onDidChangeTreeData fired, view not yet re-read
    lastWrite,                      \* the write that landed last: command, list unhideAll cleared
    call                            \* a getChildren call on its way from await to await

vars == <<fs, hiddenFolders, flattenSingleFileDirectories,
          flattenSingleChildDirectories, unreadable, listing, pending,
          refreshFired, lastWrite, call>>

----------------------------------------------------------------------------
(* Bounds of the model.                                                    *)

\* number of files and directories below the workspace root
MaxEntries == 3
\* number of paths in explorerSharp.hiddenFolders
MaxHidden == 1
\* number of commands suspended at an await at one time
MaxPending == 1
\* number of commands suspended at an await at one time when commands race
MaxRacing == 2

----------------------------------------------------------------------------
(* Strings, names and the vscode.FileType enumeration.                     *)

\* vscode.FileType.File
File == 1
\* vscode.FileType.Directory
Directory == 2
\* vscode.FileType.SymbolicLink
SymbolicLink == 64

FileTypes == {File, Directory, SymbolicLink}

\* entry names that occur on disk: "a", "b" and the dotfile ".a"
Names == { <<"a">>, <<"b">>, <<".", "a">> }

\* the `undefined` of an absent optional string (folderPath)
Undefined == <<>>

\* String.prototype.startsWith
StartsWith(s, prefix) ==
    /\ Len(s) >= Len(prefix)
    /\ SubSeq(s, 1, Len(prefix)) = prefix

\* collation weight of a character under localeCompare: punctuation sorts
\* before letters, letters alphabetically
CollationWeight(c) ==
    CASE c = "." -> 0
      [] c = "/" -> 1
      [] c = "a" -> 2
      [] c = "b" -> 3
      [] OTHER   -> 4

\* String.prototype.localeCompare: negative, zero or positive
RECURSIVE LocaleCompare(_, _)
LocaleCompare(a, b) ==
    IF a = <<>> /\ b = <<>> THEN 0
    ELSE IF a = <<>> THEN -1
    ELSE IF b = <<>> THEN 1
    ELSE IF CollationWeight(Head(a)) < CollationWeight(Head(b)) THEN -1
    ELSE IF CollationWeight(Head(a)) > CollationWeight(Head(b)) THEN 1
    ELSE LocaleCompare(Tail(a), Tail(b))

----------------------------------------------------------------------------
(* Uris and paths.                                                         *)

\* the uri of the first workspace folder, "/w"
workspaceRoot == <<"/", "w">>

\* vscode.Uri.joinPath(base, name)
JoinPath(base, name) == base \o <<"/">> \o name

\* vscode.workspace.asRelativePath(uri, false): the path below the workspace
\* folder, or the uri unchanged when it does not lie below it
AsRelativePath(uri) ==
    IF StartsWith(uri, workspaceRoot \o <<"/">>) /\ Len(uri) > Len(workspaceRoot) + 1
    THEN SubSeq(uri, Len(workspaceRoot) + 2, Len(uri))
    ELSE uri

\* index of the last "/" of p, 0 when there is none
LastSlash(p) ==
    LET at == {i \in 1..Len(p) : p[i] = "/"}
    IN  IF at = {} THEN 0 ELSE CHOOSE i \in at : \A j \in at : j <= i

\* path.basename(p)
Basename(p) == SubSeq(p, LastSlash(p) + 1, Len(p))

----------------------------------------------------------------------------
(* The workspace on disk.                                                  *)

Uris(tree) == {e.uri : e \in tree}

DirectoryUris(tree) ==
    {workspaceRoot} \cup {e.uri : e \in {x \in tree : x.type = Directory}}

\* the places of a tree that can take one more entry: a name not yet used
\* in a directory, with a type. The provider tests the name of a dot entry
\* before its type and never reads below one, so dot entries are files or
\* empty directories.
Vacant(tree, names) ==
    {x \in DirectoryUris(tree) \X names \X FileTypes :
        /\ JoinPath(x[1], x[2]) \notin Uris(tree)
        /\ ~StartsWith(Basename(x[1]), <<".">>)
        /\ StartsWith(x[2], <<".">>) => x[3] \in {File, Directory}}

\* one more entry below a directory of the tree
Grow(tree, names) ==
    {tree \cup {[uri |-> JoinPath(x[1], x[2]), type |-> x[3]]} :
        x \in Vacant(tree, names)}

\* every workspace of at most k entries with names from the given set
RECURSIVE Trees(_, _)
Trees(names, k) ==
    IF k = 0 THEN {{}}
    ELSE LET smaller == Trees(names, k - 1)
         IN  smaller \cup UNION {Grow(t, names) : t \in smaller}

\* every order in which the elements of a finite set can be returned
SeqsOf(S) ==
    {s \in [1..Cardinality(S) -> S] :
        \A i, j \in 1..Cardinality(S) : i # j => s[i] # s[j]}

\* the [name, type] pairs of the directory at uri
EntriesOf(uri) ==
    {<<n, e.type>> : <<n, e>> \in {x \in Names \X fs : x[2].uri = JoinPath(uri, x[1])}}

\* vscode.workspace.fs.readDirectory(uri): throws when the read fails,
\* otherwise the entries in the order the file system returns them
FsReadDirectory(uri, order) ==
    IF uri \in unreadable \/ uri \notin DirectoryUris(fs)
    THEN [threw |-> TRUE, entries |-> <<>>]
    ELSE [threw |-> FALSE, entries |-> order]

----------------------------------------------------------------------------
(* The sequence library (linq): where, contains, orderBy, thenBy, toArray. *)

\* Enumerable.where, iterated: the elements that pass, in their order
Where(items, Predicate(_)) == SelectSeq(items, Predicate)

\* Enumerable.contains
Contains(items, value) == \E i \in 1..Len(items) : items[i] = value

\* defaultCompare
DefaultCompare(a, b) == IF a < b THEN -1 ELSE IF a > b THEN 1 ELSE 0

\* stableSort: Array.prototype.sort under the comparer, ties broken by the
\* index in the input, which makes the order total; the element at position
\* k of the result is the one with k - 1 elements before it
StableSort(items, Comparer(_, _)) ==
    LET n == Len(items)
        Before(i, j) ==
            LET result == Comparer(items[i], items[j])
            IN  IF result # 0 THEN result < 0 ELSE i < j
        Position(i) == 1 + Cardinality({j \in 1..n : Before(j, i)})
    IN  [k \in 1..n |-> items[CHOOSE i \in 1..n : Position(i) = k]]

\* a key selector that ranks files ahead of everything else
TypeRankFilesFirst(entry) == IF entry[2] = File THEN 0 ELSE 1

\* the key selector given to orderBy in readDirectory
TypeRank(entry) == IF entry[2] = File THEN 1 ELSE 0

\* createKeyComparer(TypeRank, undefined, false): the comparer of orderBy
TypeRankComparer(a, b) == DefaultCompare(TypeRank(a), TypeRank(b))

\* createKeyComparer(([name]) => name, localeCompare, false)
NameComparer(a, b) == LocaleCompare(a[1], b[1])

\* the comparer composed by thenBy: the previous comparer, then the next
ComposedComparer(a, b) ==
    LET result == TypeRankComparer(a, b)
    IN  IF result # 0 THEN result ELSE NameComparer(a, b)

\* OrderedEnumerable[Symbol.iterator] of linq(entries).orderBy(...)
OrderByIterate(entries) == StableSort(entries, TypeRankComparer)

\* OrderedEnumerable[Symbol.iterator] of ....orderBy(...).thenBy(...): its
\* orderedSource is the orderBy sequence
ThenByIterate(entries) == StableSort(OrderByIterate(entries), ComposedComparer)

\* Enumerable.materialize on the thenBy sequence: Array.from(this.source),
\* and the source handed to the constructor is the orderBy sequence, so
\* the array is filled by iterating that one
Materialize(entries) == OrderByIterate(entries)

\* Enumerable.toArray on the thenBy sequence: a copy of the cached array
ToArray(entries) == Materialize(entries)

----------------------------------------------------------------------------
(* ExplorerSharpItem.                                                      *)

\* new ExplorerSharpItem({label, uri, relativePath, isDirectory, diskUri});
\* diskUri = Undefined stands for an absent option
ExplorerSharpItem(label, uri, relativePath, isDirectory, diskUri) ==
    [ label        |-> label,
      resourceUri  |-> uri,
      relativePath |-> relativePath,
      isDirectory  |-> isDirectory,
      diskUri      |-> IF diskUri = Undefined THEN uri ELSE diskUri,
      contextValue |-> IF isDirectory THEN "folder" ELSE "file",
      folderPath   |-> Undefined ]

\* what an attempt to flatten hands back: an item, undefined, or a throw
Returned(item) == [outcome |-> "item", item |-> item]
ReturnedUndefined == [outcome |-> "undefined", item |-> Undefined]
Thrown == [outcome |-> "throw", item |-> Undefined]

----------------------------------------------------------------------------
(* ExplorerSharpProvider: configuration getters.                           *)

\* get shouldFlattenSingleFile
shouldFlattenSingleFile == flattenSingleFileDirectories

\* a getter that ignores the setting and always flattens chains
ShouldFlattenSingleChildAlways == TRUE

\* get shouldFlattenSingleChild
shouldFlattenSingleChild == flattenSingleChildDirectories

\* new Set(this.hiddenFolders)
HiddenSet(hidden) == {hidden[i] : i \in 1..Len(hidden)}

\* the order in which a directory read by tryFlatten returns its entries;
\* tryFlatten uses only how many directories and files pass the filter and
\* the single one that does, so one order stands for all
SomeOrder(S) == CHOOSE s \in SeqsOf(S) : TRUE

----------------------------------------------------------------------------
(* ExplorerSharpProvider: flattening.                                      *)

\* flattenFile that forgets to set folderPath
FlattenFileWithoutFolderPath(parentUri, parentRelPath, fileName) ==
    LET fileUri == JoinPath(parentUri, fileName)
        label == Basename(parentRelPath) \o <<"/">> \o fileName
        item == ExplorerSharpItem(label, fileUri, AsRelativePath(fileUri), FALSE, Undefined)
    IN  [item EXCEPT !.contextValue = "flatFolder"]

\* a flattenFile that labels the item with the file name alone
FlattenFileBareLabel(parentUri, parentRelPath, fileName) ==
    LET fileUri == JoinPath(parentUri, fileName)
        item == ExplorerSharpItem(fileName, fileUri, AsRelativePath(fileUri), FALSE, Undefined)
    IN  [item EXCEPT !.contextValue = "flatFolder", !.folderPath = parentRelPath]

\* flattenFile
FlattenFile(parentUri, parentRelPath, fileName) ==
    LET fileUri == JoinPath(parentUri, fileName)
        fileRelative == AsRelativePath(fileUri)
        folderName == Basename(parentRelPath)
        label == folderName \o <<"/">> \o fileName
        item == ExplorerSharpItem(label, fileUri, fileRelative, FALSE, Undefined)
    IN  [item EXCEPT !.contextValue = "flatFolder", !.folderPath = parentRelPath]

\* a tryFlatten without its catch clause: the failed read is thrown on
TryFlattenRethrow == [outcome |-> "throw", item |-> Undefined]

\* the catch clause of tryFlatten
TryFlattenCatch == ReturnedUndefined

\* a filter that lets dotfiles through
IsShownWithDotfiles(fullUri, name, hidden) ==
    AsRelativePath(JoinPath(fullUri, name)) \notin hidden

\* a filter that lets hidden paths through
IsShownWithHidden(fullUri, name, hidden) == ~StartsWith(name, <<".">>)

\* the filter of tryFlatten: neither a dotfile nor a hidden path
IsShown(fullUri, name, hidden) ==
    IF StartsWith(name, <<".">>)
    THEN FALSE
    ELSE AsRelativePath(JoinPath(fullUri, name)) \notin hidden

RECURSIVE TryFlatten(_, _, _)
RECURSIVE FlattenChildDir(_, _, _, _)

\* a tryFlatten that flattens to the first file when there are several
TryFlattenAnyFile(fullUri, relativePath, hidden) ==
    LET read == FsReadDirectory(fullUri, SomeOrder(EntriesOf(fullUri)))
    IN  IF read.threw
        THEN TryFlattenCatch
        ELSE LET Shown(entry) == IsShown(fullUri, entry[1], hidden)
                 IsDir(entry) == entry[2] = Directory
                 IsNotDir(entry) == entry[2] # Directory
                 entries == Where(read.entries, Shown)
                 dirs == Where(entries, IsDir)
                 files == Where(entries, IsNotDir)
             IN  IF shouldFlattenSingleFile /\ Len(files) >= 1 /\ Len(dirs) = 0
                 THEN Returned(FlattenFile(fullUri, relativePath, files[1][1]))
                 ELSE IF shouldFlattenSingleChild /\ Len(dirs) = 1 /\ Len(files) = 0
                 THEN FlattenChildDir(fullUri, relativePath, dirs[1][1], hidden)
                 ELSE ReturnedUndefined

\* tryFlatten
TryFlatten(fullUri, relativePath, hidden) ==
    LET read == FsReadDirectory(fullUri, SomeOrder(EntriesOf(fullUri)))
    IN  IF read.threw
        THEN TryFlattenCatch
        ELSE LET Shown(entry) == IsShown(fullUri, entry[1], hidden)
                 IsDir(entry) == entry[2] = Directory
                 IsNotDir(entry) == entry[2] # Directory
                 entries == Where(read.entries, Shown)
                 dirs == Where(entries, IsDir)
                 files == Where(entries, IsNotDir)
             IN  IF shouldFlattenSingleFile /\ Len(files) = 1 /\ Len(dirs) = 0
                 THEN Returned(FlattenFile(fullUri, relativePath, files[1][1]))
                 ELSE IF shouldFlattenSingleChild /\ Len(dirs) = 1 /\ Len(files) = 0
                 THEN FlattenChildDir(fullUri, relativePath, dirs[1][1], hidden)
                 ELSE ReturnedUndefined

\* a flattenChildDir that hands the inner result on without prefixing
\* its label
FlattenChildDirInnerLabel(parentUri, parentRelPath, childName, hidden) ==
    LET childUri == JoinPath(parentUri, childName)
        childRelative == AsRelativePath(childUri)
        deeper == TryFlatten(childUri, childRelative, hidden)
    IN  IF deeper.outcome = "item"
        THEN deeper
        ELSE Returned(ExplorerSharpItem(Basename(parentRelPath) \o <<"/">> \o childName,
                                        childUri, childRelative, TRUE, childUri))

\* a flattenChildDir that anchors the directory item it falls back to at
\* the folder it was called for
FlattenChildDirAnchored(parentUri, parentRelPath, childName, hidden) ==
    LET childUri == JoinPath(parentUri, childName)
        childRelative == AsRelativePath(childUri)
        folderName == Basename(parentRelPath)
        deeper == TryFlatten(childUri, childRelative, hidden)
    IN  IF deeper.outcome = "throw"
        THEN Thrown
        ELSE IF deeper.outcome = "item"
        THEN LET compacted ==
                     ExplorerSharpItem(folderName \o <<"/">> \o deeper.item.label,
                                       deeper.item.resourceUri,
                                       deeper.item.relativePath,
                                       deeper.item.isDirectory,
                                       deeper.item.diskUri)
             IN  Returned([compacted EXCEPT
                              !.contextValue = deeper.item.contextValue,
                              !.folderPath = IF deeper.item.folderPath = Undefined
                                             THEN parentRelPath
                                             ELSE deeper.item.folderPath])
        ELSE LET plain == ExplorerSharpItem(folderName \o <<"/">> \o childName,
                                            childUri, childRelative, TRUE, childUri)
             IN  Returned([plain EXCEPT !.folderPath = parentRelPath])

\* flattenChildDir
FlattenChildDir(parentUri, parentRelPath, childName, hidden) ==
    LET childUri == JoinPath(parentUri, childName)
        childRelative == AsRelativePath(childUri)
        folderName == Basename(parentRelPath)
        deeper == TryFlatten(childUri, childRelative, hidden)
    IN  IF deeper.outcome = "throw"
        THEN Thrown
        ELSE IF deeper.outcome = "item"
        THEN LET compacted ==
                     ExplorerSharpItem(folderName \o <<"/">> \o deeper.item.label,
                                       deeper.item.resourceUri,
                                       deeper.item.relativePath,
                                       deeper.item.isDirectory,
                                       deeper.item.diskUri)
             IN  Returned([compacted EXCEPT
                              !.contextValue = deeper.item.contextValue,
                              !.folderPath = deeper.item.folderPath])
        ELSE Returned(ExplorerSharpItem(folderName \o <<"/">> \o childName,
                                        childUri, childRelative, TRUE, childUri))

----------------------------------------------------------------------------
(* ExplorerSharpProvider: listing.                                         *)

\* the catch clause of readDirectory: log and answer the empty list
ReadDirectoryCatch == [threw |-> FALSE, items |-> <<>>]

\* the body of the for loop of readDirectory for one entry: the items it
\* pushes (none or one), or a throw
ItemsOfEntry(dirUri, entry, hidden) ==
    LET name == entry[1]
        type == entry[2]
        fullUri == JoinPath(dirUri, name)
        relativePath == AsRelativePath(fullUri)
    IN  IF StartsWith(name, <<".">>)
        THEN [threw |-> FALSE, items |-> <<>>]
        ELSE IF relativePath \in hidden
        THEN [threw |-> FALSE, items |-> <<>>]
        ELSE IF type = Directory
        THEN LET flatResult == TryFlatten(fullUri, relativePath, hidden)
             IN  IF flatResult.outcome = "throw"
                 THEN [threw |-> TRUE, items |-> <<>>]
                 ELSE IF flatResult.outcome = "item"
                 THEN [threw |-> FALSE, items |-> <<flatResult.item>>]
                 ELSE [threw |-> FALSE,
                       items |-> <<ExplorerSharpItem(name, fullUri, relativePath,
                                                     TRUE, Undefined)>>]
        ELSE [threw |-> FALSE,
              items |-> <<ExplorerSharpItem(name, fullUri, relativePath,
                                            FALSE, Undefined)>>]

\* the for loop of readDirectory over the sorted entries, from entry i on
RECURSIVE ReadLoop(_, _, _, _)
ReadLoop(dirUri, entries, i, hidden) ==
    IF i > Len(entries)
    THEN [threw |-> FALSE, items |-> <<>>]
    ELSE LET first == ItemsOfEntry(dirUri, entries[i], hidden)
             rest == ReadLoop(dirUri, entries, i + 1, hidden)
         IN  IF first.threw \/ rest.threw
             THEN [threw |-> TRUE, items |-> <<>>]
             ELSE [threw |-> FALSE, items |-> first.items \o rest.items]

\* readDirectory with this.hiddenFolders holding hiddenValue: order is the
\* order in which the file system returns the entries of dirUri
ReadDirectoryWith(hiddenValue, dirUri, order) ==
    LET hidden == HiddenSet(hiddenValue)
        read == FsReadDirectory(dirUri, order)
    IN  IF read.threw
        THEN ReadDirectoryCatch
        ELSE ReadLoop(dirUri, ToArray(read.entries), 1, hidden)

\* readDirectory
ReadDirectory(dirUri, order) == ReadDirectoryWith(hiddenFolders, dirUri, order)

\* get hiddenFolders: the array the configuration hands out
hiddenFoldersGetter == hiddenFolders

----------------------------------------------------------------------------
(* The tree view asking for children.                                      *)

\* no configuration write landed yet
NoWrite == [cmd |-> "none", replaced |-> <<>>]

\* no getChildren call made yet
NoListing ==
    [ called |-> FALSE,
      dir    |-> workspaceRoot,
      raw    |-> <<>>,
      threw  |-> FALSE,
      items  |-> <<>> ]

\* no getChildren call under way
NoCall ==
    [ phase   |-> "idle",
      dir     |-> workspaceRoot,
      raw     |-> <<>>,
      hidden  |-> {},
      entries |-> <<>>,
      i       |-> 0,
      cur     |-> Undefined,
      items   |-> <<>>,
      atStart |-> <<>> ]

\* getChildren(element) answered: dirUri is element.diskUri, or the
\* workspace root when there is no element
Answer(dirUri) ==
    \E order \in SeqsOf(EntriesOf(dirUri)) :
        LET read == FsReadDirectory(dirUri, order)
            result == ReadDirectory(dirUri, order)
        IN  listing' = [ called |-> TRUE,
                         dir    |-> dirUri,
                         raw    |-> read.entries,
                         threw  |-> result.threw,
                         items  |-> result.items ]

\* getChildren() for the root of the view
GetChildrenRoot ==
    /\ Answer(workspaceRoot)
    /\ refreshFired' = FALSE
    /\ UNCHANGED <<fs, hiddenFolders, flattenSingleFileDirectories,
                   flattenSingleChildDirectories, unreadable, pending, lastWrite,
                   call>>

\* getChildren(element) for a collapsible item of the last answer
GetChildrenElement ==
    /\ \E i \in 1..Len(listing.items) :
          /\ listing.items[i].isDirectory
          /\ Answer(listing.items[i].diskUri)
    /\ UNCHANGED <<fs, hiddenFolders, flattenSingleFileDirectories,
                   flattenSingleChildDirectories, unreadable, pending,
                   refreshFired, lastWrite,
                   call>>

----------------------------------------------------------------------------
(* Specification of the listing engine: any workspace, any settings, every *)
(* read succeeds.                                                          *)

\* the relative paths of the entries of the workspace
RelativePaths == {AsRelativePath(u) : u \in Uris(fs)}

\* the values explorerSharp.hiddenFolders can hold: the listing looks at the
\* set of its elements only, so one array stands for each set
HiddenLists(paths) ==
    {SomeOrder(S) : S \in {T \in SUBSET paths : Cardinality(T) <= MaxHidden}}

Init ==
    /\ fs \in Trees(Names, MaxEntries)
    /\ hiddenFolders \in HiddenLists(RelativePaths)
    /\ flattenSingleFileDirectories \in BOOLEAN
    /\ flattenSingleChildDirectories \in BOOLEAN
    /\ unreadable = {}
    /\ listing = NoListing
    /\ pending = <<>>
    /\ refreshFired = FALSE
    /\ lastWrite = NoWrite
    /\ call = NoCall

Next ==
    \/ GetChildrenRoot
    \/ GetChildrenElement

Spec == Init /\ [][Next]_vars

----------------------------------------------------------------------------
(* Specification of the listing engine under read failures: any workspace, *)
(* any set of unreadable directories, the default hiddenFolders.           *)

InitFail ==
    /\ fs \in Trees(Names, MaxEntries)
    /\ hiddenFolders = <<>>
    /\ flattenSingleFileDirectories \in BOOLEAN
    /\ flattenSingleChildDirectories \in BOOLEAN
    /\ unreadable \in SUBSET DirectoryUris(fs)
    /\ listing = NoListing
    /\ pending = <<>>
    /\ refreshFired = FALSE
    /\ lastWrite = NoWrite
    /\ call = NoCall

SpecFail == InitFail /\ [][Next]_vars

----------------------------------------------------------------------------
(* getChildren from await to await. readDirectory takes the hidden paths   *)
(* into a Set before its first await; tryFlatten asks the configuration    *)
(* for the two flags after its own read has come back. Between two awaits  *)
(* the code runs without interruption; at an await the settings can        *)
(* change.                                                                 *)

\* the directory that holds the entry at uri
ParentOf(uri) == SubSeq(uri, 1, LastSlash(uri) - 1)

\* the for loop of readDirectory from entry i on, up to its next await:
\* dotfiles and hidden paths are skipped, files are pushed, and the loop
\* stops at the first directory, whose tryFlatten it awaits
RECURSIVE LoopToAwait(_, _, _, _, _)
LoopToAwait(dirUri, entries, i, hidden, items) ==
    IF i > Len(entries)
    THEN [i |-> i, items |-> items]
    ELSE LET name == entries[i][1]
             type == entries[i][2]
             fullUri == JoinPath(dirUri, name)
             relativePath == AsRelativePath(fullUri)
         IN  IF StartsWith(name, <<".">>) \/ relativePath \in hidden
             THEN LoopToAwait(dirUri, entries, i + 1, hidden, items)
             ELSE IF type = Directory
             THEN [i |-> i, items |-> items]
             ELSE LoopToAwait(dirUri, entries, i + 1, hidden,
                      Append(items, ExplorerSharpItem(name, fullUri, relativePath,
                                                      FALSE, Undefined)))

\* flattenChildDir after its await: what it returns for what the inner
\* tryFlatten handed back
FlattenChildDirResumed(parentUri, parentRelPath, childName, deeper) ==
    LET childUri == JoinPath(parentUri, childName)
        childRelative == AsRelativePath(childUri)
        folderName == Basename(parentRelPath)
    IN  IF deeper.outcome = "item"
        THEN LET compacted ==
                     ExplorerSharpItem(folderName \o <<"/">> \o deeper.item.label,
                                       deeper.item.resourceUri,
                                       deeper.item.relativePath,
                                       deeper.item.isDirectory,
                                       deeper.item.diskUri)
             IN  Returned([compacted EXCEPT
                              !.contextValue = deeper.item.contextValue,
                              !.folderPath = deeper.item.folderPath])
        ELSE Returned(ExplorerSharpItem(folderName \o <<"/">> \o childName,
                                        childUri, childRelative, TRUE, childUri))

\* the flattenChildDir calls suspended between the listed entry top and
\* the directory cur resume one after the other with the result for cur
RECURSIVE Unwind(_, _, _)
Unwind(top, cur, result) ==
    IF cur = top
    THEN result
    ELSE Unwind(top, ParentOf(cur),
                FlattenChildDirResumed(ParentOf(cur), AsRelativePath(ParentOf(cur)),
                                       Basename(cur), result))

\* readDirectory has pushed the item for entry i and goes on with its
\* loop: to the next await, or to its return
Continue(items, i) ==
    LET step == LoopToAwait(call.dir, call.entries, i, call.hidden, items)
    IN  IF step.i > Len(call.entries)
        THEN /\ call' = [call EXCEPT !.phase = "done", !.i = step.i,
                                     !.cur = Undefined, !.items = step.items]
             /\ listing' = [ called |-> TRUE,
                             dir    |-> call.dir,
                             raw    |-> call.raw,
                             threw  |-> FALSE,
                             items  |-> step.items ]
        ELSE /\ call' = [call EXCEPT !.phase = "flatten", !.i = step.i,
                                     !.cur = JoinPath(call.dir, call.entries[step.i][1]),
                                     !.items = step.items]
             /\ UNCHANGED listing

\* getChildren(element) up to the first await of readDirectory: the hidden
\* paths are taken into a Set, the read of the directory is under way;
\* atStart is the answer the settings of this moment give
BeginGetChildren ==
    /\ call.phase \in {"idle", "done"}
    /\ \E dirUri \in {workspaceRoot}
                     \cup {listing.items[k].diskUri :
                              k \in {n \in 1..Len(listing.items) : listing.items[n].isDirectory}} :
          \E order \in SeqsOf(EntriesOf(dirUri)) :
              /\ call' = [ phase   |-> "read",
                           dir     |-> dirUri,
                           raw     |-> order,
                           hidden  |-> HiddenSet(hiddenFoldersGetter),
                           entries |-> <<>>,
                           i       |-> 0,
                           cur     |-> Undefined,
                           items   |-> <<>>,
                           atStart |-> ReadDirectory(dirUri, order).items ]
              /\ refreshFired' = IF dirUri = workspaceRoot THEN FALSE ELSE refreshFired
    /\ UNCHANGED <<fs, hiddenFolders, flattenSingleFileDirectories,
                   flattenSingleChildDirectories, unreadable, listing, pending,
                   lastWrite>>

\* the read of readDirectory comes back: on a failure the answer is empty,
\* otherwise the entries are sorted and the loop starts
ReadDirectoryResumed ==
    /\ call.phase = "read"
    /\ LET read == FsReadDirectory(call.dir, call.raw)
       IN  IF read.threw
           THEN /\ call' = [call EXCEPT !.phase = "done", !.items = ReadDirectoryCatch.items]
                /\ listing' = [ called |-> TRUE,
                                dir    |-> call.dir,
                                raw    |-> read.entries,
                                threw  |-> ReadDirectoryCatch.threw,
                                items  |-> ReadDirectoryCatch.items ]
           ELSE LET sorted == ToArray(read.entries)
                    step == LoopToAwait(call.dir, sorted, 1, call.hidden, <<>>)
                IN  IF step.i > Len(sorted)
                    THEN /\ call' = [call EXCEPT !.phase = "done", !.entries = sorted,
                                                 !.i = step.i, !.items = step.items]
                         /\ listing' = [ called |-> TRUE,
                                         dir    |-> call.dir,
                                         raw    |-> read.entries,
                                         threw  |-> FALSE,
                                         items  |-> step.items ]
                    ELSE /\ call' = [call EXCEPT !.phase = "flatten", !.entries = sorted,
                                                 !.i = step.i,
                                                 !.cur = JoinPath(call.dir, sorted[step.i][1]),
                                                 !.items = step.items]
                         /\ UNCHANGED listing
    /\ UNCHANGED <<fs, hiddenFolders, flattenSingleFileDirectories,
                   flattenSingleChildDirectories, unreadable, pending,
                   refreshFired, lastWrite>>

\* the read of tryFlatten for the directory call.cur comes back: the
\* entries are filtered with the Set taken at the start, the flags are
\* asked of the configuration now. It flattens to the single file, goes
\* one directory down and awaits again, or gives up; a result travels up
\* through the suspended flattenChildDir calls, readDirectory pushes the
\* item and goes on
TryFlattenResumed ==
    /\ call.phase = "flatten"
    /\ LET fullUri == call.cur
           relativePath == AsRelativePath(fullUri)
           top == JoinPath(call.dir, call.entries[call.i][1])
           read == FsReadDirectory(fullUri, SomeOrder(EntriesOf(fullUri)))
           Shown(entry) == IsShown(fullUri, entry[1], call.hidden)
           IsDir(entry) == entry[2] = Directory
           IsNotDir(entry) == entry[2] # Directory
           entries == Where(read.entries, Shown)
           dirs == Where(entries, IsDir)
           files == Where(entries, IsNotDir)
           Push(result) ==
               LET flatResult == Unwind(top, fullUri, result)
                   name == call.entries[call.i][1]
               IN  Continue(Append(call.items,
                                   IF flatResult.outcome = "item"
                                   THEN flatResult.item
                                   ELSE ExplorerSharpItem(name, top, AsRelativePath(top),
                                                          TRUE, Undefined)),
                            call.i + 1)
       IN  IF read.threw
           THEN Push(TryFlattenCatch)
           ELSE IF shouldFlattenSingleFile /\ Len(files) = 1 /\ Len(dirs) = 0
           THEN Push(Returned(FlattenFile(fullUri, relativePath, files[1][1])))
           ELSE IF shouldFlattenSingleChild /\ Len(dirs) = 1 /\ Len(files) = 0
           THEN /\ call' = [call EXCEPT !.cur = JoinPath(fullUri, dirs[1][1])]
                /\ UNCHANGED listing
           ELSE Push(ReturnedUndefined)
    /\ UNCHANGED <<fs, hiddenFolders, flattenSingleFileDirectories,
                   flattenSingleChildDirectories, unreadable, pending,
                   refreshFired, lastWrite>>

\* the user changes one of the three settings in the settings editor
SettingsChanged ==
    /\ \/ /\ flattenSingleFileDirectories' = ~flattenSingleFileDirectories
          /\ UNCHANGED <<flattenSingleChildDirectories, hiddenFolders>>
       \/ /\ flattenSingleChildDirectories' = ~flattenSingleChildDirectories
          /\ UNCHANGED <<flattenSingleFileDirectories, hiddenFolders>>
       \/ /\ hiddenFolders' \in HiddenLists(RelativePaths) \ {hiddenFolders}
          /\ UNCHANGED <<flattenSingleFileDirectories, flattenSingleChildDirectories>>
    /\ refreshFired' = TRUE
    /\ UNCHANGED <<fs, unreadable, listing, pending, lastWrite, call>>

(* Specification of getChildren under changing settings: a workspace that  *)
(* is one chain of entries named "a", any settings.                        *)

InitSnap ==
    /\ fs \in Trees({<<"a">>}, MaxEntries)
    /\ hiddenFolders \in HiddenLists(RelativePaths)
    /\ flattenSingleFileDirectories \in BOOLEAN
    /\ flattenSingleChildDirectories \in BOOLEAN
    /\ unreadable = {}
    /\ listing = NoListing
    /\ pending = <<>>
    /\ refreshFired = FALSE
    /\ lastWrite = NoWrite
    /\ call = NoCall

NextSnap ==
    \/ BeginGetChildren
    \/ ReadDirectoryResumed
    \/ TryFlattenResumed
    \/ SettingsChanged

SpecSnap == InitSnap /\ [][NextSnap]_vars

----------------------------------------------------------------------------
(* ExplorerSharpProvider: the hide, unhide and unhideAll commands. Each    *)
(* runs to its await of config.update, which leaves it in pending; the     *)
(* writes land in the order they were issued, and the command resumes      *)
(* after its own write to fire the refresh.                                *)

\* hideFolderFromItem: the folderPath of a Uri argument
HideFolderPathOfUri(uri) == AsRelativePath(uri)

\* hideFolderFromItem: item?.folderPath ?? item?.relativePath
HideFolderPathOfItem(item) ==
    IF item.folderPath # Undefined THEN item.folderPath ELSE item.relativePath

\* hideFolderFromItem: the array handed to config.update, hidden.push(folderPath)
HideValue(hidden, folderPath) == Append(hidden, folderPath)

\* unhideFolder: linq(hiddenFolders).where((f) => f !== relativePath).toArray()
UnhideFolderValue(hidden, relativePath) ==
    LET Other(f) == f # relativePath
    IN  Where(hidden, Other)

\* an unhideAll that writes back the array it read
UnhideAllFoldersUnchanged == hiddenFolders

\* unhideAllFolders: the array handed to config.update
UnhideAllFoldersValue == <<>>

\* a command suspended at await this.config.update("hiddenFolders", value);
\* path is the path it was asked to hide or unhide
Suspended(cmd, path, value) ==
    [cmd |-> cmd, path |-> path, value |-> value, written |-> FALSE]

\* the arguments the commands are invoked with: an item of the last
\* answer, or the Uri of an entry of the workspace
ItemArguments == {listing.items[i] : i \in 1..Len(listing.items)}
UriArguments == Uris(fs)

\* hideFolderFromItem: the folderPath it computes for an item, for a Uri,
\* and for no argument at all
HideFolderPaths ==
    {HideFolderPathOfItem(item) : item \in ItemArguments}
        \cup {HideFolderPathOfUri(uri) : uri \in UriArguments}
        \cup {Undefined}

\* hideFolderFromItem: without a path, or with a path that is hidden
\* already, it returns at once, writes nothing and fires nothing; otherwise
\* it runs up to its await
HideFolderFromItemWithin(limit) ==
    /\ \E folderPath \in HideFolderPaths :
          LET hidden == hiddenFoldersGetter
          IN  IF folderPath = Undefined \/ Contains(hidden, folderPath)
              THEN UNCHANGED pending
              ELSE /\ Len(pending) < limit
                   /\ Len(hidden) < MaxHidden
                   /\ pending' = Append(pending,
                          Suspended("hide", folderPath, HideValue(hidden, folderPath)))
    /\ UNCHANGED <<fs, hiddenFolders, flattenSingleFileDirectories,
                   flattenSingleChildDirectories, unreadable, listing,
                   refreshFired, lastWrite, call>>

HideFolderFromItem == HideFolderFromItemWithin(MaxPending)

\* unhideFolderFromItem for an item: unhideFolder(item.relativePath) up to
\* its await
UnhideFolderFromItemWithin(limit) ==
    /\ Len(pending) < limit
    /\ \E item \in ItemArguments :
          /\ item.relativePath # Undefined
          /\ pending' = Append(pending,
                 Suspended("unhide", item.relativePath,
                           UnhideFolderValue(hiddenFoldersGetter, item.relativePath)))
    /\ UNCHANGED <<fs, hiddenFolders, flattenSingleFileDirectories,
                   flattenSingleChildDirectories, unreadable, listing,
                   refreshFired, lastWrite, call>>

UnhideFolderFromItem == UnhideFolderFromItemWithin(MaxPending)

\* unhideFolderFromItem without an item: the quick pick over the hidden
\* folders and unhideFolder(picked) up to its await; with nothing hidden,
\* or with the pick dismissed, it changes nothing
UnhideFolderPickedWithin(limit) ==
    /\ Len(pending) < limit
    /\ \E k \in 1..Len(hiddenFoldersGetter) :
          LET picked == hiddenFoldersGetter[k]
          IN  pending' = Append(pending,
                  Suspended("unhide", picked,
                            UnhideFolderValue(hiddenFoldersGetter, picked)))
    /\ UNCHANGED <<fs, hiddenFolders, flattenSingleFileDirectories,
                   flattenSingleChildDirectories, unreadable, listing,
                   refreshFired, lastWrite, call>>

UnhideFolderPicked == UnhideFolderPickedWithin(MaxPending)

\* unhideAllFolders up to its await
UnhideAllFoldersWithin(limit) ==
    /\ Len(pending) < limit
    /\ pending' = Append(pending, Suspended("unhideAll", Undefined, UnhideAllFoldersValue))
    /\ UNCHANGED <<fs, hiddenFolders, flattenSingleFileDirectories,
                   flattenSingleChildDirectories, unreadable, listing,
                   refreshFired, lastWrite, call>>

UnhideAllFolders == UnhideAllFoldersWithin(MaxPending)

\* config.update lands: the oldest write not yet applied replaces the
\* setting, and the onDidChangeConfiguration listener fires a refresh
ConfigurationUpdated ==
    /\ \E i \in 1..Len(pending) :
          /\ ~pending[i].written
          /\ \A j \in 1..(i - 1) : pending[j].written
          /\ hiddenFolders' = pending[i].value
          /\ lastWrite' = [cmd |-> pending[i].cmd,
                            replaced |-> IF pending[i].cmd = "unhideAll"
                                         THEN hiddenFolders
                                         ELSE <<>>]
          /\ pending' = [pending EXCEPT ![i].written = TRUE]
    /\ refreshFired' = TRUE
    /\ UNCHANGED <<fs, flattenSingleFileDirectories,
                   flattenSingleChildDirectories, unreadable, listing,
                   call>>

\* a command that fires its refresh without waiting for its write
ResumeBeforeWrite ==
    /\ pending # <<>>
    /\ pending' = Tail(pending)
    /\ refreshFired' = TRUE
    /\ UNCHANGED <<fs, hiddenFolders, flattenSingleFileDirectories,
                   flattenSingleChildDirectories, unreadable, listing, lastWrite,
                   call>>

\* the command resumes after its await, calls this.refresh() and returns
Resume ==
    /\ pending # <<>>
    /\ Head(pending).written
    /\ pending' = Tail(pending)
    /\ refreshFired' = TRUE
    /\ UNCHANGED <<fs, hiddenFolders, flattenSingleFileDirectories,
                   flattenSingleChildDirectories, unreadable, listing, lastWrite,
                   call>>

----------------------------------------------------------------------------
(* Vocabulary of the properties.                                           *)

\* the "/"-separated segments of a path or label
RECURSIVE Segments(_)
Segments(p) ==
    LET at == {i \in 1..Len(p) : p[i] = "/"}
    IN  IF at = {}
        THEN <<p>>
        ELSE LET first == CHOOSE i \in at : \A j \in at : i <= j
             IN  <<SubSeq(p, 1, first - 1)>> \o Segments(SubSeq(p, first + 1, Len(p)))

\* the path of uri below the directory dir
Below(dir, uri) == SubSeq(uri, Len(dir) + 2, Len(uri))

\* uri lies at or below top
AtOrBelow(top, uri) == uri = top \/ StartsWith(uri, top \o <<"/">>)

\* the type of the entry at uri
TypeAt(uri) == (CHOOSE e \in fs : e.uri = uri).type

\* the name of the entry of the listed directory an item was produced from
EntryNameOf(item) == Segments(Below(listing.dir, item.resourceUri))[1]

\* the type of the entry of the listed directory an item was produced from
EntryTypeOf(item) == TypeAt(JoinPath(listing.dir, EntryNameOf(item)))

\* the entries of the directory at uri that are neither dotfiles nor hidden
VisibleEntries(uri) ==
    {e \in EntriesOf(uri) :
        /\ e[1][1] # "."
        /\ \A k \in 1..Len(hiddenFolders) :
              hiddenFolders[k] # AsRelativePath(JoinPath(uri, e[1]))}

\* the positions of the last answer whose item stands for the entry at top
ItemsFor(top) ==
    {i \in 1..Len(listing.items) : AtOrBelow(top, listing.items[i].resourceUri)}

\* the file at the bottom of the chain that starts at the directory uri:
\* every directory of the chain has exactly one visible entry, a directory,
\* except the last, whose one visible entry is not a directory; Undefined
\* when uri starts no such chain
RECURSIVE ChainFile(_)
ChainFile(uri) ==
    LET visible == VisibleEntries(uri)
    IN  IF Cardinality(visible) # 1
        THEN Undefined
        ELSE LET e == CHOOSE x \in visible : TRUE
             IN  IF e[2] = Directory
                 THEN ChainFile(JoinPath(uri, e[1]))
                 ELSE JoinPath(uri, e[1])

\* the visible directories of the listed directory
ListedDirectories ==
    {JoinPath(listing.dir, e[1]) : e \in {x \in VisibleEntries(listing.dir) : x[2] = Directory}}

\* a getChildren call was answered from a directory that could be read
Listed == listing.called /\ listing.dir \notin unreadable

----------------------------------------------------------------------------
(* C1: within each type rank, the items of an answer are in ascending      *)
(* order of the names of the entries they were produced from, whatever the *)
(* order in which the file system returned the entries.                    *)

C1_AscendingNamesWithinRank ==
    Listed =>
        \A i, j \in 1..Len(listing.items) :
            LET a == listing.items[i]
                b == listing.items[j]
            IN  ( /\ i < j
                  /\ EntryTypeOf(a) = EntryTypeOf(b)
                  /\ EntryTypeOf(a) \in {File, Directory} )
                => LocaleCompare(EntryNameOf(a), EntryNameOf(b)) <= 0

----------------------------------------------------------------------------
(* C2: in every answer, each item produced from a Directory entry, plain   *)
(* or flattened, comes before each item produced from a File entry.        *)

C2_DirectoriesBeforeFiles ==
    Listed =>
        \A i, j \in 1..Len(listing.items) :
            ( /\ EntryTypeOf(listing.items[i]) = Directory
              /\ EntryTypeOf(listing.items[j]) = File )
            => i < j

\* the file system returned a File entry ahead of a Directory entry and the
\* answer holds an item for each of them
C2_Witness ==
    /\ Listed
    /\ \E k, l \in 1..Len(listing.raw) :
          /\ k < l
          /\ listing.raw[k][2] = File
          /\ listing.raw[l][2] = Directory
          /\ ItemsFor(JoinPath(listing.dir, listing.raw[k][1])) # {}
          /\ ItemsFor(JoinPath(listing.dir, listing.raw[l][1])) # {}

----------------------------------------------------------------------------
(* C3: no item is produced from an entry whose name starts with ".", no    *)
(* segment of an item's label or of its logical path below the listed      *)
(* directory starts with ".", and a directory that holds dotfiles is       *)
(* flattened as if it did not hold them.                                   *)

\* some segment of the path starts with "."
HasDotSegment(p) ==
    \E k \in 1..Len(Segments(p)) : StartsWith(Segments(p)[k], <<".">>)

\* the directory at uri holds an entry whose name starts with "."
HoldsDotfile(uri) == \E e \in EntriesOf(uri) : StartsWith(e[1], <<".">>)

C3_DotfilesNeverListed ==
    Listed =>
        /\ \A i \in 1..Len(listing.items) :
              LET item == listing.items[i]
              IN  /\ ~HasDotSegment(item.label)
                  /\ ~HasDotSegment(Below(listing.dir,
                                          JoinPath(workspaceRoot, item.relativePath)))
                  /\ ~StartsWith(EntryNameOf(item), <<".">>)
        /\ \A d \in ListedDirectories :
              LET visible == VisibleEntries(d)
                  only == CHOOSE e \in visible : TRUE
              IN  (HoldsDotfile(d) /\ Cardinality(visible) = 1) =>
                    \A i \in ItemsFor(d) :
                        /\ (flattenSingleFileDirectories /\ only[2] # Directory)
                              => /\ ~listing.items[i].isDirectory
                                 /\ listing.items[i].resourceUri = JoinPath(d, only[1])
                        /\ (flattenSingleChildDirectories /\ only[2] = Directory)
                              => Len(Segments(listing.items[i].label)) >= 2

\* a listed directory that holds a dotfile and one file is flattened to
\* that file
C3_Witness ==
    /\ Listed
    /\ \E d \in ListedDirectories :
          /\ HoldsDotfile(d)
          /\ \E i \in ItemsFor(d) : listing.items[i].contextValue = "flatFolder"

----------------------------------------------------------------------------
(* C4: with the hidden paths as they are during the listings, no item of   *)
(* an answer, for the root or for an item of an earlier answer, has a      *)
(* logical path that is a hidden path or lies below one, also when the     *)
(* hidden path lies inside a chain that would otherwise be flattened.      *)

C4_HiddenPathsNeverListed ==
    Listed =>
        \A k \in 1..Len(hiddenFolders) :
            \A i \in 1..Len(listing.items) :
                ~AtOrBelow(hiddenFolders[k], listing.items[i].relativePath)

\* a hidden directory is the only child of a listed directory, which would
\* start a flattened chain, and that parent is listed as a plain directory
C4_Witness ==
    /\ Listed
    /\ flattenSingleChildDirectories
    /\ \E e \in EntriesOf(listing.dir) :
          LET d == JoinPath(listing.dir, e[1])
          IN  /\ e[2] = Directory
              /\ \E c \in EntriesOf(d) :
                    /\ c[2] = Directory
                    /\ EntriesOf(d) = {c}
                    /\ EntriesOf(JoinPath(d, c[1])) # {}
                    /\ Contains(hiddenFolders, AsRelativePath(JoinPath(d, c[1])))
              /\ \E i \in ItemsFor(d) :
                    /\ listing.items[i].label = e[1]
                    /\ listing.items[i].isDirectory

----------------------------------------------------------------------------
(* C5: with both flattening settings on, a chain of directories that ends  *)
(* in a single file is listed as exactly one item whose folderPath is the  *)
(* relative path of the top directory of the chain.                        *)

C5_OriginFolderIsTopOfChain ==
    (Listed /\ flattenSingleFileDirectories /\ flattenSingleChildDirectories) =>
        \A d \in ListedDirectories :
            ChainFile(d) # Undefined =>
                /\ Cardinality(ItemsFor(d)) = 1
                /\ \A i \in ItemsFor(d) :
                      listing.items[i].folderPath = AsRelativePath(d)

----------------------------------------------------------------------------
(* C6: with both flattening settings on, a chain d1/.../dn that ends in a  *)
(* single file f is listed as exactly one item, labelled "d1/.../dn/f",    *)
(* not a directory, whose logical path is the relative path of f.          *)

C6_ChainLabelAndPath ==
    (Listed /\ flattenSingleFileDirectories /\ flattenSingleChildDirectories) =>
        \A d \in ListedDirectories :
            ChainFile(d) # Undefined =>
                /\ Cardinality(ItemsFor(d)) = 1
                /\ \A i \in ItemsFor(d) :
                      /\ listing.items[i].label = Below(listing.dir, ChainFile(d))
                      /\ ~listing.items[i].isDirectory
                      /\ listing.items[i].relativePath = AsRelativePath(ChainFile(d))

\* a chain of two directories or more above the file was listed
C6_Witness ==
    /\ Listed
    /\ flattenSingleFileDirectories
    /\ flattenSingleChildDirectories
    /\ \E d \in ListedDirectories :
          /\ ChainFile(d) # Undefined
          /\ Len(Segments(Below(listing.dir, ChainFile(d)))) >= 3
          /\ ItemsFor(d) # {}

----------------------------------------------------------------------------
(* C7: with single-file flattening on, a directory d whose visible entries *)
(* are exactly one file f is listed by its parent as exactly one item:     *)
(* label "d/f", not a directory, logical path and location those of f,     *)
(* folderPath the relative path of d.                                      *)

C7_SingleFileFolder ==
    (Listed /\ flattenSingleFileDirectories) =>
        \A d \in ListedDirectories :
            LET visible == VisibleEntries(d)
                f == CHOOSE e \in visible : TRUE
            IN  (Cardinality(visible) = 1 /\ f[2] # Directory) =>
                    /\ Cardinality(ItemsFor(d)) = 1
                    /\ \A i \in ItemsFor(d) :
                          LET item == listing.items[i]
                          IN  /\ item.label = Basename(d) \o <<"/">> \o f[1]
                              /\ ~item.isDirectory
                              /\ item.relativePath = AsRelativePath(JoinPath(d, f[1]))
                              /\ item.diskUri = JoinPath(d, f[1])
                              /\ item.resourceUri = JoinPath(d, f[1])
                              /\ item.folderPath = AsRelativePath(d)

\* a directory left with one file after a hidden sibling of that file is
\* taken out was listed by its parent
C7_Witness ==
    /\ Listed
    /\ flattenSingleFileDirectories
    /\ \E d \in ListedDirectories :
          /\ Cardinality(VisibleEntries(d)) = 1
          /\ Cardinality(EntriesOf(d)) = 2
          /\ \E k \in 1..Len(hiddenFolders) :
                AtOrBelow(d, JoinPath(workspaceRoot, hiddenFolders[k]))
          /\ \E f \in VisibleEntries(d) : f[2] # Directory
          /\ ItemsFor(d) # {}

----------------------------------------------------------------------------
(* C10: a failed read never leaves getChildren as an error. When the read  *)
(* of the listed directory fails the answer is empty. When the read of a   *)
(* directory fails inside a flattening attempt, the answer still holds one *)
(* item for every visible entry of the listed directory, and the item for  *)
(* the directory concerned is a directory item located at the directory    *)
(* that could not be read.                                                 *)

C10_ReadFailuresStayInside ==
    listing.called =>
        /\ ~listing.threw
        /\ listing.dir \in unreadable => listing.items = <<>>
        /\ listing.dir \notin unreadable =>
              /\ \A e \in VisibleEntries(listing.dir) :
                    Cardinality(ItemsFor(JoinPath(listing.dir, e[1]))) = 1
              /\ \A d \in ListedDirectories :
                    \A i \in ItemsFor(d) :
                        LET item == listing.items[i]
                            visible == VisibleEntries(d)
                            c == CHOOSE e \in visible : TRUE
                        IN  /\ d \in unreadable =>
                                  /\ item.label = Basename(d)
                                  /\ item.isDirectory
                                  /\ item.diskUri = d
                            /\ ( /\ d \notin unreadable
                                 /\ flattenSingleChildDirectories
                                 /\ Cardinality(visible) = 1
                                 /\ c[2] = Directory
                                 /\ JoinPath(d, c[1]) \in unreadable ) =>
                                  /\ item.label = Basename(d) \o <<"/">> \o c[1]
                                  /\ item.isDirectory
                                  /\ item.diskUri = JoinPath(d, c[1])

\* the read of the only child of a listed directory failed one level down
\* in the flattening, and the answer holds that chain and a sibling entry
C10_Witness ==
    /\ Listed
    /\ flattenSingleChildDirectories
    /\ Len(listing.items) >= 2
    /\ \E d \in ListedDirectories :
          /\ d \notin unreadable
          /\ \E c \in VisibleEntries(d) :
                /\ VisibleEntries(d) = {c}
                /\ JoinPath(d, c[1]) \in unreadable
                /\ \E i \in ItemsFor(d) : listing.items[i].diskUri = JoinPath(d, c[1])

----------------------------------------------------------------------------
(* Specification of the commands: a workspace that is one chain of entries *)
(* named "a", the default settings, and the view listing in between.       *)

InitCmd ==
    /\ fs \in Trees({<<"a">>}, MaxEntries)
    /\ hiddenFolders = <<>>
    /\ flattenSingleFileDirectories = TRUE
    /\ flattenSingleChildDirectories = TRUE
    /\ unreadable = {}
    /\ listing = NoListing
    /\ pending = <<>>
    /\ refreshFired = FALSE
    /\ lastWrite = NoWrite
    /\ call = NoCall

NextCmd ==
    \/ GetChildrenRoot
    \/ GetChildrenElement
    \/ HideFolderFromItem
    \/ UnhideFolderFromItem
    \/ UnhideFolderPicked
    \/ UnhideAllFolders
    \/ ConfigurationUpdated
    \/ Resume

SpecCmd == InitCmd /\ [][NextCmd]_vars

----------------------------------------------------------------------------
(* C8: for every item of an answer, hiding the item and then unhiding the  *)
(* same item leaves the set of hidden paths as it was before the hide.     *)

\* the last answer is what the listing gives under the settings as they are
Fresh ==
    /\ Listed
    /\ listing.items = ReadDirectory(listing.dir, listing.raw).items

\* explorerSharp.hiddenFolders once hideFolderFromItem(item) has completed
AfterHide(hidden, item) ==
    LET folderPath == HideFolderPathOfItem(item)
    IN  IF folderPath = Undefined \/ Contains(hidden, folderPath)
        THEN hidden
        ELSE HideValue(hidden, folderPath)

\* explorerSharp.hiddenFolders once unhideFolderFromItem(item) has completed
AfterUnhide(hidden, item) == UnhideFolderValue(hidden, item.relativePath)

C8_HideThenUnhideRestores ==
    Fresh =>
        \A item \in ItemArguments :
            HiddenSet(AfterUnhide(AfterHide(hiddenFolders, item), item))
                = HiddenSet(hiddenFolders)

----------------------------------------------------------------------------
(* C9: once the write of unhideAll has landed, and until another write     *)
(* lands, nothing is hidden: an answer given since is the answer of a      *)
(* workspace in which nothing was ever hidden, and every entry without a   *)
(* dot segment, the ones hidden before included, is an item of the root    *)
(* answer, inside a flattened item, or below a directory item.             *)

\* the entry at uri is shown by the last answer or below one of its items
Covered(uri) ==
    \E i \in 1..Len(listing.items) :
        \/ AtOrBelow(uri, listing.items[i].resourceUri)
        \/ /\ listing.items[i].isDirectory
           /\ AtOrBelow(listing.items[i].diskUri, uri)

C9_UnhideAllRestoresEverything ==
    lastWrite.cmd = "unhideAll" =>
        /\ hiddenFolders = <<>>
        /\ (listing.called /\ ~refreshFired) =>
              /\ listing.items = ReadDirectoryWith(<<>>, listing.dir, listing.raw).items
              /\ listing.dir = workspaceRoot =>
                    \A uri \in Uris(fs) :
                        ~HasDotSegment(AsRelativePath(uri)) => Covered(uri)

\* unhideAll replaced a setting that hid a directory in the middle of a
\* chain, and the root answer given since shows the chain flattened again
C9_Witness ==
    /\ lastWrite.cmd = "unhideAll"
    /\ ~refreshFired
    /\ listing.called
    /\ listing.dir = workspaceRoot
    /\ \E k \in 1..Len(lastWrite.replaced) :
          \E i \in 1..Len(listing.items) :
              /\ listing.items[i].folderPath = lastWrite.replaced[k]
              /\ listing.items[i].contextValue = "flatFolder"
              /\ Len(Segments(listing.items[i].label)) >= 3

----------------------------------------------------------------------------
(* C11: for the entries a read returned, in any order, the array that      *)
(* orderBy(rank).thenBy(name, localeCompare).toArray() hands back is a     *)
(* permutation of the entries, sorted by rank, entries of equal rank       *)
(* sorted by name, entries equal on both keys in their original order,     *)
(* and it equals what iterating the same sequence object yields.           *)

\* position of the element in the sequence (the names of a read differ)
PositionIn(items, value) == CHOOSE k \in 1..Len(items) : items[k] = value

C11_ToArraySortedByKeyChain ==
    listing.called =>
        LET input == listing.raw
            array == ToArray(input)
        IN  /\ Len(array) = Len(input)
            /\ {array[k] : k \in 1..Len(array)} = {input[k] : k \in 1..Len(input)}
            /\ \A i, j \in 1..Len(array) :
                  i < j =>
                    /\ TypeRank(array[i]) <= TypeRank(array[j])
                    /\ TypeRank(array[i]) = TypeRank(array[j])
                          => LocaleCompare(array[i][1], array[j][1]) <= 0
                    /\ ( /\ TypeRank(array[i]) = TypeRank(array[j])
                         /\ LocaleCompare(array[i][1], array[j][1]) = 0 )
                          => PositionIn(input, array[i]) < PositionIn(input, array[j])
            /\ array = ThenByIterate(input)

----------------------------------------------------------------------------
(* C12: with flattenSingleFileDirectories off no item has a folderPath and *)
(* every item produced from a Directory entry is a directory item; with    *)
(* flattenSingleChildDirectories off no label has more than one folder     *)
(* name ahead of the terminal name; with both off every item is plain:     *)
(* labelled with the name of its entry, located at it, no folderPath.      *)

C12_FlagsGateIndependently ==
    Listed =>
        \A i \in 1..Len(listing.items) :
            LET item == listing.items[i]
            IN  /\ ~flattenSingleFileDirectories =>
                      /\ item.folderPath = Undefined
                      /\ EntryTypeOf(item) = Directory => item.isDirectory
                /\ ~flattenSingleChildDirectories =>
                      Len(Segments(item.label)) <= 2
                /\ (~flattenSingleFileDirectories /\ ~flattenSingleChildDirectories) =>
                      /\ item.label = EntryNameOf(item)
                      /\ item.resourceUri = JoinPath(listing.dir, item.label)
                      /\ item.diskUri = item.resourceUri
                      /\ item.folderPath = Undefined

\* with single-file flattening off and chain flattening on, a chain that
\* ends in a single file was collapsed down to its last directory only
C12_Witness ==
    /\ Listed
    /\ ~flattenSingleFileDirectories
    /\ flattenSingleChildDirectories
    /\ \E d \in ListedDirectories :
          /\ ChainFile(d) # Undefined
          /\ \E i \in ItemsFor(d) :
                /\ listing.items[i].isDirectory
                /\ Len(Segments(listing.items[i].label)) = 2

----------------------------------------------------------------------------
(* C14: an item has a folderPath if and only if it was produced by         *)
(* flattening, that is, its label is a composite of names joined with "/". *)

C14_OriginFolderIffFlattened ==
    Listed =>
        \A i \in 1..Len(listing.items) :
            (listing.items[i].folderPath # Undefined)
                <=> (Len(Segments(listing.items[i].label)) >= 2)

(* C14 as amended: an item has a folderPath if and only if it was produced *)
(* by flattening and is not a directory item (a single-file folder, alone  *)
(* or at the end of a collapsed chain); the directory item a collapsed     *)
(* chain falls back to has a composite label and no folderPath.            *)

C14_OriginFolderIffFlattenedFile ==
    Listed =>
        \A i \in 1..Len(listing.items) :
            LET item == listing.items[i]
            IN  /\ (item.folderPath # Undefined)
                      <=> (Len(Segments(item.label)) >= 2 /\ ~item.isDirectory)
                /\ item.isDirectory => item.folderPath = Undefined

\* a collapsed chain fell back to a directory item with a composite label
C14_Witness ==
    /\ Listed
    /\ \E i \in 1..Len(listing.items) :
          /\ listing.items[i].isDirectory
          /\ Len(Segments(listing.items[i].label)) >= 2
          /\ listing.items[i].folderPath = Undefined

----------------------------------------------------------------------------
(* C15: a directory with no visible entry, or with two or more, is never   *)
(* flattened, whatever the settings: its parent lists it as one plain      *)
(* directory item (labelled with its name, located at it, no folderPath),  *)
(* and the answer for a listed directory holds exactly one item for each   *)
(* of its visible entries.                                                 *)

C15_UnflattenableDirectoriesArePlain ==
    Listed =>
        /\ \A d \in ListedDirectories :
              Cardinality(VisibleEntries(d)) # 1 =>
                  /\ Cardinality(ItemsFor(d)) = 1
                  /\ \A i \in ItemsFor(d) :
                        LET item == listing.items[i]
                        IN  /\ item.label = Basename(d)
                            /\ item.isDirectory
                            /\ item.resourceUri = d
                            /\ item.diskUri = d
                            /\ item.relativePath = AsRelativePath(d)
                            /\ item.folderPath = Undefined
        /\ Len(listing.items) = Cardinality(VisibleEntries(listing.dir))
        /\ \A e \in VisibleEntries(listing.dir) :
              Cardinality(ItemsFor(JoinPath(listing.dir, e[1]))) = 1

\* a directory with two visible entries, listed by its parent as a plain
\* directory item, was expanded and the answer holds both entries
C15_Witness ==
    /\ Listed
    /\ listing.dir # workspaceRoot
    /\ Cardinality(VisibleEntries(listing.dir)) = 2
    /\ Len(listing.items) = 2

----------------------------------------------------------------------------
(* C18: for every item of the answer for directory D: its logical path is  *)
(* the relative path of an existing entry strictly below D, visible at     *)
(* every level from D down; its label is the path of that entry below D;   *)
(* its location is that entry; and no two items of the answer have the     *)
(* same logical path.                                                      *)

\* the entry at uri and every directory between dir and it are visible
VisibleBelow(dir, uri) ==
    \A u \in Uris(fs) :
        (StartsWith(u, dir \o <<"/">>) /\ AtOrBelow(u, uri)) =>
            /\ ~StartsWith(Basename(u), <<".">>)
            /\ ~Contains(hiddenFolders, AsRelativePath(u))

C18_ItemsNameEntriesBelow ==
    Listed =>
        \A i \in 1..Len(listing.items) :
            LET item == listing.items[i]
            IN  /\ item.resourceUri \in Uris(fs)
                /\ item.relativePath = AsRelativePath(item.resourceUri)
                /\ StartsWith(item.resourceUri, listing.dir \o <<"/">>)
                /\ VisibleBelow(listing.dir, item.resourceUri)
                /\ item.label = Below(listing.dir, item.resourceUri)
                /\ item.diskUri = item.resourceUri
                /\ \A j \in 1..Len(listing.items) :
                      j # i => listing.items[j].relativePath # item.relativePath

\* the answer for a directory below the root holds a flattened item
C18_Witness ==
    /\ Listed
    /\ listing.dir # workspaceRoot
    /\ \E i \in 1..Len(listing.items) :
          Len(Segments(listing.items[i].label)) >= 2


----------------------------------------------------------------------------
(* C16: a hide, unhide or unhideAll command that writes the setting fires  *)
(* the refresh event itself exactly once, in the step in which it returns, *)
(* and returns only once its write has landed; no other step of a command  *)
(* fires the event or changes the setting, so a hide without a path, or of *)
(* a path hidden already, writes nothing and fires nothing.                *)

\* the write of a suspended command lands in this step
WriteLands ==
    \E i \in 1..Len(pending) :
        /\ Len(pending') = Len(pending)
        /\ ~pending[i].written
        /\ pending'[i].written
        /\ hiddenFolders' = pending[i].value

\* a suspended command returns in this step
CommandReturns == pending # <<>> /\ pending' = Tail(pending)

----------------------------------------------------------------------------
(* Specification of racing commands: a workspace with as many entries as   *)
(* commands can be in flight, nothing hidden, the default settings.        *)

InitRace ==
    /\ fs \in Trees({<<"a">>, <<"b">>}, MaxRacing)
    /\ hiddenFolders = <<>>
    /\ flattenSingleFileDirectories = TRUE
    /\ flattenSingleChildDirectories = TRUE
    /\ unreadable = {}
    /\ listing = NoListing
    /\ pending = <<>>
    /\ refreshFired = FALSE
    /\ lastWrite = NoWrite
    /\ call = NoCall

NextRace ==
    \/ GetChildrenRoot
    \/ GetChildrenElement
    \/ HideFolderFromItemWithin(MaxRacing)
    \/ UnhideFolderFromItemWithin(MaxRacing)
    \/ UnhideFolderPickedWithin(MaxRacing)
    \/ UnhideAllFoldersWithin(MaxRacing)
    \/ ConfigurationUpdated
    \/ Resume

SpecRace == InitRace /\ [][NextRace]_vars

----------------------------------------------------------------------------
(* C17: when two commands for different paths, two hides or a hide and an  *)
(* unhide, are in flight together, then once the write of the second has   *)
(* landed the setting reflects both: a path one of them hid is in it, a    *)
(* path one of them unhid is not.                                          *)

\* the setting reflects the command
Reflects(command, hidden) ==
    IF command.cmd = "hide"
    THEN Contains(hidden, command.path)
    ELSE ~Contains(hidden, command.path)

C17_NoLostUpdate ==
    [][ \A i, j \in 1..Len(pending) :
            ( /\ i < j
              /\ Len(pending') = Len(pending)
              /\ pending[i].written
              /\ ~pending[j].written
              /\ pending'[j].written
              /\ pending[i].cmd \in {"hide", "unhide"}
              /\ pending[j].cmd \in {"hide", "unhide"}
              /\ "hide" \in {pending[i].cmd, pending[j].cmd}
              /\ pending[i].path # pending[j].path )
            => /\ Reflects(pending[i], hiddenFolders')
               /\ Reflects(pending[j], hiddenFolders') ]_vars


----------------------------------------------------------------------------
(* C13: a getChildren call answers with the list that the settings as they *)
(* were when the call started give (the hidden paths and both flattening   *)
(* flags), also when a setting changes while the call is suspended at a    *)
(* read.                                                                   *)

C13_OneConfigurationSnapshot ==
    call.phase = "done" => call.items = call.atStart


============================================================================
